---- MODULE Spec2Model ----
(***************************************************************************)
(* gtui: a task graph (gtui/task.py) run by a multi-threaded executor      *)
(* (gtui/executor.py).                                                     *)
(*                                                                         *)
(* A Task is identified by its name (Task.__eq__/__hash__ use the name     *)
(* only), so a task is modelled by a number in TaskNames.                  *)
(*                                                                         *)
(* Threads of an execution:                                                *)
(*   - the main thread, which calls Executor.start_execution;              *)
(*   - one worker (IORedirectedThread) per task;                           *)
(*   - one completion watcher per finished worker, spawned by              *)
(*     IORedirectedThread.execute_callback_in_new_thread; after joining    *)
(*     the worker it runs                                                  *)
(*     Executor.check_finish_status_and_schedule_task_to_run.              *)
(* Proc 0 is the main thread, proc t > 0 is the watcher of task t.         *)
(***************************************************************************)
EXTENDS Integers, Sequences, FiniteSets, TLC

\* Number of task names available to a graph.
NumTasks == 3

\* Largest number of waits-for edges of a graph built by GraphSpec.
MaxEdges == 3

\* Largest number of waits-for edges of a graph built by BuildSpec.
MaxBuildEdges == 2

\* Longest list handed to add_tasks.
MaxListLen == 2

\* Largest number of registered tasks of a graph that RunSpec hands to an
\* Executor.
MaxRunTasks == 2

\* Number of thread identifiers the platform hands out.
NumIdents == 4

\* Largest number of sys.stdout writes of an execution.
MaxWrites == 2

\* Largest number of log records emitted in an execution.
MaxRecords == 1

TaskNames == 1..NumTasks

Main == 0

Procs == 0..NumTasks

VARIABLES
    tasks,              \* TaskGraph.tasks: registered tasks, insertion order
    task2waiting_for,   \* TaskGraph.task2waiting_for: task -> list of tasks
    cycle,              \* what TaskGraph.has_cycle() did, once it was called
    call,               \* the last call that raised, or that made the graph / the executor
    callback,           \* Executor.callback: "none", or how the callable behaves
    thread,             \* worker of each task: "new", "running", "exiting", "dead"
    error,              \* IORedirectedThread.error is set (the body raised)
    thread2started,     \* Executor.thread2started
    startCalls,         \* number of thread.start() calls made on each worker
    thread_start_lock,  \* Executor.thread_start_lock: the threads inside it ({} = free)
    sched,              \* per proc: position in start_execution / completion pass
    cbTrue,             \* number of callback(True) invocations so far
    cbFalse,            \* number of callback(False) invocations so far
    watcher,            \* completion watcher of each worker: "new", "alive", "dead"
    ident,              \* get_ident() of each thread (0 = not started)
    storage,            \* _local.__storage__: ident -> worker whose str_stdout is bound (0 = none)
    str_stdout,         \* IORedirectedThread.str_stdout of each worker
    real_stdout,        \* what was written to sys.__stdout__
    name2records,       \* SeparateThreadLogCollector.name2records
    taskName            \* Task.name of each task, as a thread name

graphVars == <<tasks, task2waiting_for, cycle, call>>

workerVars == <<thread, error, thread2started, startCalls>>

cbVars == <<cbTrue, cbFalse>>

ioVars == <<watcher, ident, storage, str_stdout, real_stdout, name2records, taskName>>

vars == <<tasks, task2waiting_for, cycle, call, callback, thread, error, thread2started,
          startCalls, thread_start_lock, sched, cbTrue, cbFalse, watcher, ident,
          storage, str_stdout, real_stdout, name2records, taskName>>

----------------------------------------------------------------------------
(* TaskGraph: construction and has_cycle                                   *)

Range(s) == {s[k] : k \in 1..Len(s)}

\* has_cycle was not called yet.
NotCalled == [called |-> FALSE, raised |-> FALSE, path |-> <<>>]

\* No call to report: the graph was made by TaskGraph() and grown by calls
\* that returned.
NoCall == [op |-> "none", error |-> "none", arg |-> <<>>]

\* The call op returned.
Returned(op) == [NoCall EXCEPT !.op = op]

\* The call op raised err; an uncaught exception ends the calling script.
Raised(op, err, arg) == [op |-> op, error |-> err, arg |-> arg]

\* The waiting_for argument of add_task / add_dependency over the task
\* names S: None (<<>>), or one Task, which has the effect of a list of one
\* task.  A longer list has the effect of successive calls.
WaitingForArgs(S) ==
    {<<>>} \cup {<<w>> : w \in S}

RECURSIVE SumLen(_, _)
SumLen(g, S) ==
    IF S = {} THEN 0
    ELSE LET t == CHOOSE x \in S : TRUE
         IN  Len(g[t]) + SumLen(g, S \ {t})

EdgeCount == SumLen(task2waiting_for, DOMAIN task2waiting_for)

\* TaskGraph.add_dependency on the dict g: append one task, or extend by a
\* list.
add_dependency(g, task, waiting_for) ==
    [g EXCEPT ![task] = @ \o waiting_for]

\* A plausible slip: the task is appended without looking for its name.
add_task_NoMembershipTest(ts, g, task, waiting_for) ==
    LET g1 == [t \in DOMAIN g \cup {task} |-> IF t = task THEN <<>> ELSE g[t]]
    IN  [tasks |-> Append(ts, task),
         task2waiting_for |-> IF waiting_for # <<>>
                              THEN add_dependency(g1, task, waiting_for)
                              ELSE g1]

\* TaskGraph.add_task: register the task unless one of that name is
\* registered, then add the dependencies given.
add_task(ts, g, task, waiting_for) ==
    LET known == task \in Range(ts)
        ts1 == IF known THEN ts ELSE Append(ts, task)
        g1 == IF known THEN g
              ELSE [t \in DOMAIN g \cup {task} |-> IF t = task THEN <<>> ELSE g[t]]
    IN  [tasks |-> ts1,
         task2waiting_for |-> IF waiting_for # <<>>
                              THEN add_dependency(g1, task, waiting_for)
                              ELSE g1]

\* TaskGraph.add_tasks: add_task(t) for each t of the list.
RECURSIVE add_tasks(_, _, _)
add_tasks(ts, g, list) ==
    IF list = <<>> THEN [tasks |-> ts, task2waiting_for |-> g]
    ELSE LET r == add_task(ts, g, Head(list), <<>>)
         IN  add_tasks(r.tasks, r.task2waiting_for, Tail(list))

RECURSIVE linear_deps(_, _, _)

\* A plausible slip: the pairs are taken the other way round.
linear_deps_Reversed(g, list, k) ==
    IF k >= Len(list) THEN g
    ELSE linear_deps(add_dependency(g, list[k], <<list[k + 1]>>), list, k + 1)

\* `for t1, t2 in zip(tasks[:-1], tasks[1:]): graph.add_dependency(t2,
\* waiting_for=t1)` from the k-th pair on.
linear_deps(g, list, k) ==
    IF k >= Len(list) THEN g
    ELSE linear_deps(add_dependency(g, list[k + 1], <<list[k]>>), list, k + 1)

\* TaskGraph.linear_graph_from_list on a new graph.
linear_graph_from_list(list) ==
    LET r == add_tasks(<<>>, <<>>, list)
    IN  [tasks |-> r.tasks,
         task2waiting_for |-> linear_deps(r.task2waiting_for, list, 1)]

\* The while loop of dfs: v = w; while v != t: cycle.append(v);
\* v = task2on_stack_dep[v].
RECURSIVE cycle_path(_, _, _)
cycle_path(task2on_stack_dep, v, t) ==
    IF v = t THEN <<>>
    ELSE <<v>> \o cycle_path(task2on_stack_dep, task2on_stack_dep[v], t)

\* A plausible slip: the back-edge target is not appended again.
closed_cycle_NotClosed(task2on_stack_dep, w, t) ==
    cycle_path(task2on_stack_dep, w, t) \o <<t>>

\* The list dfs builds on a back edge t -> w: the tasks from w down to t,
\* then `cycle += [t, w]`.
closed_cycle(task2on_stack_dep, w, t) ==
    cycle_path(task2on_stack_dep, w, t) \o <<t, w>>

RECURSIVE dfs(_, _, _), dfs_for(_, _, _, _)

\* A plausible slip: dfs(t) forgets task2on_stack[t] = True.
dfs_NoOnStack(g, st, t) ==
    dfs_for(g, [st EXCEPT !.task2visited[t] = TRUE], t, 1)

\* has_cycle's nested dfs(t).  st holds task2visited, task2on_stack,
\* task2on_stack_dep (0 = None), cycle (<<>> = None) and whether a KeyError
\* is propagating.
dfs(g, st, t) ==
    dfs_for(g, [st EXCEPT !.task2visited[t] = TRUE, !.task2on_stack[t] = TRUE], t, 1)

\* The for loop of dfs(t) from the k-th element of task2waiting_for[t] on,
\* then task2on_stack[t] = False.  `if cycle: return` leaves without
\* resetting task2on_stack; task2visited[w] of an unregistered w raises
\* KeyError.
dfs_for(g, st, t, k) ==
    IF st.raised THEN st
    ELSE IF k > Len(g[t]) THEN [st EXCEPT !.task2on_stack[t] = FALSE]
    ELSE LET w == g[t][k]
         IN  IF st.cycle # <<>> THEN st
             ELSE IF w \notin DOMAIN st.task2visited
                  THEN [st EXCEPT !.raised = TRUE]
             ELSE IF ~st.task2visited[w]
                  THEN dfs_for(g, dfs(g, [st EXCEPT !.task2on_stack_dep[t] = w], w),
                               t, k + 1)
             ELSE IF st.task2on_stack[w]
                  THEN dfs_for(g, [st EXCEPT !.cycle =
                                      closed_cycle(st.task2on_stack_dep, w, t)],
                               t, k + 1)
             ELSE dfs_for(g, st, t, k + 1)

\* `for t in self.tasks: if not task2visited[t]: dfs(t)` from the k-th task.
RECURSIVE has_cycle_for(_, _, _, _)
has_cycle_for(ts, g, st, k) ==
    IF st.raised \/ k > Len(ts) THEN st
    ELSE has_cycle_for(ts, g,
                       IF ~st.task2visited[ts[k]] THEN dfs(g, st, ts[k]) ELSE st,
                       k + 1)

\* TaskGraph.has_cycle: the returned list (<<>> = None), or a KeyError.
has_cycle(ts, g) ==
    LET st0 == [task2visited |-> [t \in Range(ts) |-> FALSE],
                task2on_stack |-> [t \in Range(ts) |-> FALSE],
                task2on_stack_dep |-> [t \in Range(ts) |-> 0],
                cycle |-> <<>>,
                raised |-> FALSE]
        st == has_cycle_for(ts, g, st0, 1)
    IN  [called |-> TRUE, raised |-> st.raised,
         path |-> IF st.raised THEN <<>> ELSE st.cycle]

----------------------------------------------------------------------------
(* TaskStatus and the derived status                                       *)

Waiting == "Waiting"

Running == "Running"

Success == "Success"

Failure == "Failure"

\* threading.Thread.is_alive(): started and not yet stopped.  A worker stays
\* alive after its body ended ("exiting") until run() has returned.
is_alive(t) == thread[t] \in {"running", "exiting"}

\* A plausible slip: a captured error is not looked at.
get_task_status_NoErrorCheck(t) ==
    IF is_alive(t) THEN Running
    ELSE IF ~thread2started[t] THEN Waiting
    ELSE Success

\* Executor.get_task_status evaluated at one instant.
get_task_status(t) ==
    IF is_alive(t) THEN Running
    ELSE IF ~thread2started[t] THEN Waiting
    ELSE IF error[t] THEN Failure
    ELSE Success

\* A plausible slip: a dependency counts as satisfied as soon as it has been
\* started.
if_all_tasks_success_StartedCounts(ts) ==
    \A t \in Range(ts) : get_task_status(t) # Waiting

\* Executor.if_all_tasks_success(tasks) evaluated at one instant.
if_all_tasks_success(ts) == \A t \in Range(ts) : get_task_status(t) = Success

\* Executor.if_any_failed_task() evaluated at one instant.
if_any_failed_task == \E t \in Range(tasks) : get_task_status(t) = Failure

\* One of the three reads get_task_status makes, for a caller that does not
\* hold thread_start_lock: other threads run between the reads.  sub names
\* the read to make; the result is a status, or the next read to make.
StatusRead(t, sub) ==
    CASE sub = "alive" -> IF is_alive(t) THEN Running ELSE "flag"
      [] sub = "flag"  -> IF ~thread2started[t] THEN Waiting ELSE "error"
      [] sub = "error" -> IF error[t] THEN Failure ELSE Success

\* A plausible slip: the dependencies are not looked at.
ReadyToRun_NoDepCheck(t) == get_task_status(t) = Waiting

\* The filter of get_tasks_ready_to_run for one task.  The caller holds
\* thread_start_lock, so no worker is started and no thread2started entry
\* changes during the evaluation; workers may only finish meanwhile, which
\* makes the reads of one task equivalent to reads at one instant.
ReadyToRun(t) ==
    /\ get_task_status(t) = Waiting
    /\ if_all_tasks_success(task2waiting_for[t])

\* A plausible slip: a task missing from task2thread is treated as a task
\* that was never started.
RaisesKeyError_Never(t) == FALSE

\* The filter of get_tasks_ready_to_run raises KeyError for task t: t is
\* Waiting, so if_all_tasks_success(waiting_for) is evaluated, and
\* get_task_thread looks up task2thread[w] for a w the Executor has no worker
\* for (task2thread has the registered tasks only).
RaisesKeyError(t) ==
    /\ get_task_status(t) = Waiting
    /\ ~(Range(task2waiting_for[t]) \subseteq Range(tasks))

----------------------------------------------------------------------------
(* Positions of a proc                                                     *)

Idle == [pc |-> "idle", i |-> 0, sub |-> "none", acc |-> FALSE, ready |-> <<>>]

At(pcv) == [Idle EXCEPT !.pc = pcv]

Scan(pcv, acc0) == [Idle EXCEPT !.pc = pcv, !.i = 1, !.sub = "alive", !.acc = acc0]

----------------------------------------------------------------------------
(* Executor.start_execution and the scheduling section                     *)

\* start_execution: init_log_setting(), then enter `with thread_start_lock`.
StartExecution ==
    /\ sched[Main].pc = "init"
    /\ thread_start_lock = {}
    /\ thread_start_lock' = {Main}
    /\ sched' = [sched EXCEPT ![Main] = [At("ready") EXCEPT !.i = 1]]
    /\ UNCHANGED <<graphVars, ioVars, callback, workerVars, cbVars>>

\* A plausible slip: the scheduling section is entered without waiting for
\* the lock.
AcquireLock_NoExclusion(p) ==
    /\ sched[p].pc = "lock"
    /\ thread_start_lock' = thread_start_lock \cup {p}
    /\ sched' = [sched EXCEPT ![p] = [At("ready") EXCEPT !.i = 1]]
    /\ UNCHANGED <<graphVars, ioVars, callback, workerVars, cbVars>>

\* A watcher reaches `with self.thread_start_lock` of the completion pass.
AcquireLock(p) ==
    /\ sched[p].pc = "lock"
    /\ thread_start_lock = {}
    /\ thread_start_lock' = {p}
    /\ sched' = [sched EXCEPT ![p] = [At("ready") EXCEPT !.i = 1]]
    /\ UNCHANGED <<graphVars, ioVars, callback, workerVars, cbVars>>

\* get_tasks_ready_to_run: one iteration of the list comprehension over
\* task2waiting_for.items() (insertion order = order of tasks).  After the
\* last one the for loop over the ready tasks begins; with no ready task the
\* with block is left and the lock released.  A KeyError leaves the with
\* block (releasing the lock) and ends the calling thread.
ComputeReady(p) ==
    /\ sched[p].pc = "ready"
    /\ p \in thread_start_lock
    /\ LET k == sched[p].i
           rdy == IF k <= Len(tasks) /\ ReadyToRun(tasks[k])
                  THEN Append(sched[p].ready, tasks[k])
                  ELSE sched[p].ready
       IN  IF k <= Len(tasks) /\ RaisesKeyError(tasks[k])
           THEN /\ sched' = [sched EXCEPT ![p] = At("crashed")]
                /\ thread_start_lock' = thread_start_lock \ {p}
           ELSE IF k < Len(tasks)
           THEN /\ sched' = [sched EXCEPT ![p].i = k + 1, ![p].ready = rdy]
                /\ UNCHANGED thread_start_lock
           ELSE IF rdy = <<>>
           THEN /\ sched' = [sched EXCEPT ![p] = At("done")]
                /\ thread_start_lock' = thread_start_lock \ {p}
           ELSE /\ sched' = [sched EXCEPT ![p] = [At("start") EXCEPT !.ready = rdy]]
                /\ UNCHANGED thread_start_lock
    /\ UNCHANGED <<graphVars, ioVars, callback, workerVars, cbVars>>

\* thread.start() on the next ready task.  Starting a thread twice raises
\* RuntimeError, which leaves the with block (releasing the lock) and ends
\* the calling thread.
ThreadStart(p) ==
    /\ sched[p].pc = "start"
    /\ p \in thread_start_lock
    /\ LET t == Head(sched[p].ready)
       IN  /\ startCalls' = [startCalls EXCEPT ![t] = @ + 1]
           /\ IF thread[t] = "new"
              THEN /\ thread' = [thread EXCEPT ![t] = "running"]
                   /\ sched' = [sched EXCEPT ![p].pc = "mark"]
                   /\ UNCHANGED thread_start_lock
              ELSE /\ sched' = [sched EXCEPT ![p] = At("crashed")]
                   /\ thread_start_lock' = thread_start_lock \ {p}
                   /\ UNCHANGED thread
    /\ UNCHANGED <<graphVars, ioVars, callback, error, thread2started, cbVars>>

\* self.thread2started[thread] = True, then the next iteration of the for
\* loop, or the end of the with block.
MarkStarted(p) ==
    /\ sched[p].pc = "mark"
    /\ p \in thread_start_lock
    /\ LET t == Head(sched[p].ready)
           rest == Tail(sched[p].ready)
       IN  /\ thread2started' = [thread2started EXCEPT ![t] = TRUE]
           /\ IF rest = <<>>
              THEN /\ sched' = [sched EXCEPT ![p] = At("done")]
                   /\ thread_start_lock' = thread_start_lock \ {p}
              ELSE /\ sched' = [sched EXCEPT ![p].pc = "start", ![p].ready = rest]
                   /\ UNCHANGED thread_start_lock
    /\ UNCHANGED <<graphVars, ioVars, callback, thread, error, startCalls, cbVars>>

----------------------------------------------------------------------------
(* IORedirectedThread.run                                                  *)

\* A plausible slip: the watcher does not join the worker, so the completion
\* pass begins while the worker is still alive.
BodyEnds_WatcherDoesNotJoin(t) ==
    /\ thread[t] = "running"
    /\ \E raised \in BOOLEAN :
          /\ thread' = [thread EXCEPT ![t] = "exiting"]
          /\ error' = [error EXCEPT ![t] = raised]
    /\ sched' = [sched EXCEPT ![t] = Scan("anyfailed", FALSE)]
    /\ UNCHANGED <<graphVars, ioVars, callback, thread2started, startCalls,
                   thread_start_lock, cbVars>>

\* The task body returns or raises; run() records the error.  The worker is
\* still alive.
BodyEnds(t) ==
    /\ thread[t] = "running"
    /\ \E raised \in BOOLEAN :
          /\ thread' = [thread EXCEPT ![t] = "exiting"]
          /\ error' = [error EXCEPT ![t] = raised]
    /\ UNCHANGED <<graphVars, ioVars, callback, thread2started, startCalls,
                   thread_start_lock, sched, cbVars>>

\* A plausible slip: run() returns without spawning the watcher.
WorkerExit_NoWatcher(t) ==
    /\ thread[t] = "exiting"
    /\ thread' = [thread EXCEPT ![t] = "dead"]
    /\ UNCHANGED <<graphVars, ioVars, callback, error, thread2started, startCalls,
                   thread_start_lock, sched, cbVars>>

\* run() spawns the watcher (execute_callback_in_new_thread) and returns; the
\* watcher's thread.join() returns once the worker is no longer alive and the
\* completion pass begins with if_any_failed_task().
WorkerExit(t) ==
    /\ thread[t] = "exiting"
    /\ thread' = [thread EXCEPT ![t] = "dead"]
    /\ sched' = [sched EXCEPT ![t] = Scan("anyfailed", FALSE)]
    /\ UNCHANGED <<graphVars, ioVars, callback, error, thread2started, startCalls,
                   thread_start_lock, cbVars>>

----------------------------------------------------------------------------
(* Executor.check_finish_status_and_schedule_task_to_run, before the lock  *)

\* if_any_failed_task(): one read of one get_task_status call of the list
\* comprehension over graph.tasks; after the last task the `if` is decided.
AnyFailedStep(p) ==
    /\ sched[p].pc = "anyfailed"
    /\ LET k == sched[p].i
           r == StatusRead(tasks[k], sched[p].sub)
           acc2 == sched[p].acc \/ r = Failure
       IN  sched' = [sched EXCEPT ![p] =
              IF r \in {"flag", "error"} THEN [@ EXCEPT !.sub = r]
              ELSE IF k < Len(tasks)
                   THEN [@ EXCEPT !.i = k + 1, !.sub = "alive", !.acc = acc2]
              ELSE IF acc2 /\ callback # "none" THEN At("cbFalse")
              ELSE Scan("allsuccess", TRUE)]
    /\ UNCHANGED <<graphVars, ioVars, callback, workerVars, thread_start_lock, cbVars>>

\* A plausible slip: the completion pass ends once it has reported a failure.
CallbackFalse_EndsPass(p) ==
    /\ sched[p].pc = "cbFalse"
    /\ cbFalse' = cbFalse + 1
    /\ sched' = [sched EXCEPT ![p] =
          IF callback = "returns" THEN At("done") ELSE At("blocked")]
    /\ UNCHANGED <<graphVars, ioVars, callback, workerVars, thread_start_lock, cbTrue>>

\* self.callback(False), called inline by the watcher.  A callback that does
\* not return (it blocks, or it raises and ends the watcher thread) keeps the
\* watcher from reaching the rest of the pass.
CallbackFalse(p) ==
    /\ sched[p].pc = "cbFalse"
    /\ cbFalse' = cbFalse + 1
    /\ sched' = [sched EXCEPT ![p] =
          IF callback = "returns" THEN Scan("allsuccess", TRUE) ELSE At("blocked")]
    /\ UNCHANGED <<graphVars, ioVars, callback, workerVars, thread_start_lock, cbTrue>>

\* if_all_tasks_success(): as AnyFailedStep, over graph.tasks.
AllSuccessStep(p) ==
    /\ sched[p].pc = "allsuccess"
    /\ LET k == sched[p].i
           r == StatusRead(tasks[k], sched[p].sub)
           acc2 == sched[p].acc /\ r = Success
       IN  sched' = [sched EXCEPT ![p] =
              IF r \in {"flag", "error"} THEN [@ EXCEPT !.sub = r]
              ELSE IF k < Len(tasks)
                   THEN [@ EXCEPT !.i = k + 1, !.sub = "alive", !.acc = acc2]
              ELSE IF acc2 /\ callback # "none" THEN At("cbTrue")
              ELSE At("lock")]
    /\ UNCHANGED <<graphVars, ioVars, callback, workerVars, thread_start_lock, cbVars>>

\* self.callback(True), called inline by the watcher.
CallbackTrue(p) ==
    /\ sched[p].pc = "cbTrue"
    /\ cbTrue' = cbTrue + 1
    /\ sched' = [sched EXCEPT ![p] =
          IF callback = "returns" THEN At("lock") ELSE At("blocked")]
    /\ UNCHANGED <<graphVars, ioVars, callback, workerVars, thread_start_lock, cbFalse>>

----------------------------------------------------------------------------
(* Graphs handed to the Executor                                           *)

\* Strictly increasing lists of task names: one list per set of tasks.  The
\* executor reads a waiting_for list only through if_all_tasks_success, which
\* depends on neither the order nor the multiplicity of its elements.
RECURSIVE SetToSeq(_)
SetToSeq(S) ==
    IF S = {} THEN <<>>
    ELSE LET m == CHOOSE x \in S : \A y \in S : x <= y
         IN  <<m>> \o SetToSeq(S \ {m})

AllTasks == SetToSeq(TaskNames)

ExecGraphs == [TaskNames -> {SetToSeq(S) : S \in SUBSET TaskNames}]

CallbackKinds == {"none", "returns", "blocks"}

\* The watcher of task t, as a thread.
Watcher(t) == NumTasks + t

\* The main thread, the workers and the watchers.
Threads == Main .. (NumTasks + NumTasks)

Idents == 1..NumIdents

\* Nothing was written or logged; only the main thread exists and every
\* task is named by itself.
IOInit ==
    /\ watcher = [t \in TaskNames |-> "new"]
    /\ ident = [c \in Threads |-> IF c = Main THEN 1 ELSE 0]
    /\ storage = [i \in Idents |-> 0]
    /\ str_stdout = [t \in TaskNames |-> <<>>]
    /\ real_stdout = <<>>
    /\ name2records = [nm \in Threads |-> <<>>]
    /\ taskName = [t \in TaskNames |-> t]

\* Executor.__init__: one worker per task, none started.
ExecutorInit ==
    /\ thread = [t \in TaskNames |-> "new"]
    /\ error = [t \in TaskNames |-> FALSE]
    /\ thread2started = [t \in TaskNames |-> FALSE]
    /\ startCalls = [t \in TaskNames |-> 0]
    /\ thread_start_lock = {}
    /\ sched = [p \in Procs |-> IF p = Main THEN At("init") ELSE Idle]
    /\ cbTrue = 0
    /\ cbFalse = 0

\* An Executor constructed on a graph of NumTasks registered tasks.
Init ==
    /\ tasks = AllTasks
    /\ task2waiting_for \in ExecGraphs
    /\ cycle = NotCalled
    /\ call = Returned("Executor")
    /\ callback \in CallbackKinds
    /\ ExecutorInit
    /\ IOInit

Next ==
    \/ StartExecution
    \/ \E p \in Procs : AcquireLock(p)
    \/ \E p \in Procs : ComputeReady(p)
    \/ \E p \in Procs : ThreadStart(p)
    \/ \E p \in Procs : MarkStarted(p)
    \/ \E t \in TaskNames : BodyEnds(t)
    \/ \E t \in TaskNames : WorkerExit(t)
    \/ \E p \in Procs : AnyFailedStep(p)
    \/ \E p \in Procs : CallbackFalse(p)
    \/ \E p \in Procs : AllSuccessStep(p)
    \/ \E p \in Procs : CallbackTrue(p)

Spec == Init /\ [][Next]_vars

FairSpec == Spec /\ WF_vars(Next)

----------------------------------------------------------------------------
(* Building a graph and asking for a cycle                                 *)

execVars == <<callback, thread, error, thread2started, startCalls,
              thread_start_lock, sched, cbTrue, cbFalse, ioVars>>

execVarsNoIO == <<callback, thread, error, thread2started, startCalls,
                 thread_start_lock, sched, cbTrue, cbFalse>>

\* The script that owns the graph is still building it: no exception has
\* ended it and no Executor was constructed on the graph.
Building == sched[Main].pc = "idle" /\ call.error = "none"

\* The lists of at most n task names.
TaskLists(n) == UNION {[1..k -> TaskNames] : k \in 0..n}

\* graph.add_task(task, waiting_for)
AddTask(task, waiting_for) ==
    /\ Building
    /\ ~cycle.called
    /\ EdgeCount + Len(waiting_for) <= MaxEdges
    /\ LET r == add_task(tasks, task2waiting_for, task, waiting_for)
       IN  /\ tasks' = r.tasks
           /\ task2waiting_for' = r.task2waiting_for
    /\ call' = NoCall
    /\ UNCHANGED <<cycle, execVars>>

\* graph.add_dependency(task, waiting_for): task2waiting_for[task] raises
\* KeyError for a task that is not registered.
AddDependency(task, waiting_for) ==
    /\ Building
    /\ ~cycle.called
    /\ IF task \in DOMAIN task2waiting_for
       THEN /\ waiting_for # <<>>
            /\ EdgeCount + Len(waiting_for) <= MaxEdges
            /\ task2waiting_for' = add_dependency(task2waiting_for, task, waiting_for)
            /\ call' = NoCall
       ELSE /\ call' = Raised("add_dependency", "KeyError", <<task>>)
            /\ UNCHANGED task2waiting_for
    /\ UNCHANGED <<tasks, cycle, execVars>>

\* graph.has_cycle()
HasCycle ==
    /\ Building
    /\ ~cycle.called
    /\ cycle' = has_cycle(tasks, task2waiting_for)
    /\ UNCHANGED <<tasks, task2waiting_for, call, execVars>>

\* No Executor exists: no worker, no lock holder, no thread in a pass.
NoExecutor ==
    /\ thread = [t \in TaskNames |-> "new"]
    /\ error = [t \in TaskNames |-> FALSE]
    /\ thread2started = [t \in TaskNames |-> FALSE]
    /\ startCalls = [t \in TaskNames |-> 0]
    /\ thread_start_lock = {}
    /\ sched = [p \in Procs |-> Idle]
    /\ cbTrue = 0
    /\ cbFalse = 0

\* TaskGraph.__init__: no task, no edge.
GraphInit ==
    /\ tasks = <<>>
    /\ task2waiting_for = <<>>
    /\ cycle = NotCalled
    /\ call = NoCall
    /\ callback = "none"
    /\ NoExecutor
    /\ IOInit

GraphNext ==
    \/ \E task \in TaskNames, waiting_for \in WaitingForArgs(TaskNames) :
          AddTask(task, waiting_for)
    \/ \E task \in TaskNames, waiting_for \in WaitingForArgs(TaskNames) :
          AddDependency(task, waiting_for)
    \/ HasCycle

GraphSpec == GraphInit /\ [][GraphNext]_vars

\* The lists handed to add_tasks, and to linear_graph_from_list.
AddTasksArgs == TaskLists(MaxListLen)

LinearGraphArgs == TaskLists(NumTasks)

\* graph.add_tasks(list)
AddTasks(list) ==
    /\ Building
    /\ ~cycle.called
    /\ LET r == add_tasks(tasks, task2waiting_for, list)
       IN  /\ tasks' = r.tasks
           /\ task2waiting_for' = r.task2waiting_for
    /\ call' = NoCall
    /\ UNCHANGED <<cycle, execVars>>

\* TaskGraph.linear_graph_from_list(list): the graph is a new one.
LinearGraphFromList(list) ==
    /\ Building
    /\ ~cycle.called
    /\ tasks = <<>>
    /\ call = NoCall
    /\ LET r == linear_graph_from_list(list)
       IN  /\ tasks' = r.tasks
           /\ task2waiting_for' = r.task2waiting_for
    /\ call' = [Returned("linear_graph_from_list") EXCEPT !.arg = list]
    /\ UNCHANGED <<cycle, execVars>>

BuildNext ==
    \/ \E task \in TaskNames, waiting_for \in WaitingForArgs(TaskNames) :
          /\ EdgeCount + Len(waiting_for) <= MaxBuildEdges
          /\ AddTask(task, waiting_for)
    \/ \E list \in AddTasksArgs : AddTasks(list)
    \/ \E task \in TaskNames, waiting_for \in WaitingForArgs(TaskNames) :
          /\ EdgeCount + Len(waiting_for) <= MaxBuildEdges
          /\ AddDependency(task, waiting_for)
    \/ /\ tasks = <<>>
       /\ \E list \in LinearGraphArgs : LinearGraphFromList(list)

BuildSpec == GraphInit /\ [][BuildNext]_vars

----------------------------------------------------------------------------
(* TaskGraph.run and an Executor constructed on a built graph              *)

\* A plausible slip: run() does not look for a cycle.
run_check_NoValidation(ts, g) == Returned("run")

\* The first statements of TaskGraph.run: cycle = self.has_cycle() (whose
\* KeyError propagates), then `if cycle: raise ValueError(...)`; the message
\* joins the names of the returned list.
run_check(ts, g) ==
    LET c == has_cycle(ts, g)
    IN  IF c.raised THEN Raised("run", "KeyError", <<>>)
        ELSE IF c.path # <<>> THEN Raised("run", "ValueError", c.path)
        ELSE Returned("run")

\* The callback a Visualizer hands to its Executor: wrapped_callback, which
\* calls the user's callback and so returns or not as that one does.
VisualizerCallbacks == {"returns", "blocks"}

\* graph.run(callback=cb): the cycle check, then Visualizer(...).run(), which
\* constructs the Executor and calls start_execution.
Run(cb) ==
    /\ Building
    /\ ~cycle.called
    /\ Len(tasks) <= MaxRunTasks
    /\ cycle' = has_cycle(tasks, task2waiting_for)
    /\ call' = run_check(tasks, task2waiting_for)
    /\ IF call'.error = "none"
       THEN /\ callback' = cb
            /\ sched' = [sched EXCEPT ![Main] = At("init")]
       ELSE UNCHANGED <<callback, sched>>
    /\ UNCHANGED <<tasks, task2waiting_for, workerVars, thread_start_lock, cbVars,
                   ioVars>>

\* Executor(graph, callback=cb) on a graph nobody validated; the caller goes
\* on to start_execution.
NewExecutor(cb) ==
    /\ Building
    /\ ~cycle.called
    /\ Len(tasks) <= MaxRunTasks
    /\ call' = Returned("Executor")
    /\ callback' = cb
    /\ sched' = [sched EXCEPT ![Main] = At("init")]
    /\ UNCHANGED <<tasks, task2waiting_for, cycle, workerVars, thread_start_lock,
                   cbVars, ioVars>>

RunNext ==
    \/ \E task \in TaskNames, waiting_for \in WaitingForArgs(TaskNames) :
          AddTask(task, waiting_for)
    \/ \E task \in TaskNames, waiting_for \in WaitingForArgs(TaskNames) :
          AddDependency(task, waiting_for)
    \/ \E cb \in VisualizerCallbacks : Run(cb)
    \/ \E cb \in CallbackKinds : NewExecutor(cb)
    \/ Next

RunSpec == GraphInit /\ [][RunNext]_vars

----------------------------------------------------------------------------
(* Captured output and log records                                         *)

\* The tasks of the Executor whose output and records OutputSpec follows.
Workers == 1..MaxRunTasks

\* The thread is alive (its identifier is in use).
Alive(c) ==
    \/ c = Main
    \/ c \in Workers /\ is_alive(c)
    \/ \E t \in Workers : c = Watcher(t) /\ watcher[t] = "alive"

\* The thread is running code that may print or log: the main thread, a
\* worker inside its task body, a watcher inside the callback (after
\* thread.join() returned).
Executing(c) ==
    \/ c = Main
    \/ c \in Workers /\ thread[c] = "running"
    \/ \E t \in Workers : c = Watcher(t) /\ watcher[t] = "alive" /\ thread[t] = "dead"

\* The identifiers get_ident() may return for a thread that starts now:
\* those of no living thread.  The identifier of a finished thread may be
\* handed out again.
FreeIdents == Idents \ {ident[c] : c \in {d \in Threads : Alive(d)}}

\* threading.Thread.name of a thread: the task's name for a worker
\* (name=task.name), MainThread (written Main) for the main thread, a name
\* of its own for a watcher.
thread_name(c) == IF c \in Workers THEN taskName[c] ELSE c

\* getattr(_local, 'stdout', sys.__stdout__) evaluated by thread c: the
\* worker whose str_stdout is stored under c's identifier, 0 for
\* sys.__stdout__.
bound_stdout(c) == storage[ident[c]]

\* The writes made so far, and those of thread c.
AllWrites == Range(real_stdout) \cup UNION {Range(str_stdout[t]) : t \in TaskNames}

WritesOf(c) == {w \in AllWrites : w[1] = c}

\* The records emitted so far in this execution, and those of thread c.
AllRecords ==
    {r \in UNION {Range(name2records[nm]) : nm \in Threads} : r.current}

RecordsOf(c) == {r \in AllRecords : r.by = c}

\* SeparateThreadLogCollector.get_thread_log_records(name); the domain of
\* name2records has every thread name, <<>> stands for a missing key.
get_thread_log_records(name) == name2records[name]

\* thread.start() on the worker of t, then the first statement of run():
\* setattr(_local, 'stdout', self.str_stdout), stored under the worker's
\* identifier.
IORedirectedThreadRun(t) ==
    /\ thread[t] = "new"
    /\ \E i \in FreeIdents :
          /\ ident' = [ident EXCEPT ![t] = i]
          /\ storage' = [storage EXCEPT ![i] = t]
    /\ thread' = [thread EXCEPT ![t] = "running"]
    /\ UNCHANGED <<graphVars, callback, error, thread2started, startCalls,
                   thread_start_lock, sched, cbVars, watcher, str_stdout,
                   real_stdout, name2records, taskName>>

\* Thread c writes to sys.stdout: the proxy forwards to the bound
\* str_stdout, or to sys.__stdout__.  The k-th write of c is <<c, k>>.
Write(c) ==
    /\ Executing(c)
    /\ Cardinality(AllWrites) < MaxWrites
    /\ LET w == <<c, Cardinality(WritesOf(c)) + 1>>
           b == bound_stdout(c)
       IN  IF b # 0
           THEN /\ str_stdout' = [str_stdout EXCEPT ![b] = Append(@, w)]
                /\ UNCHANGED real_stdout
           ELSE /\ real_stdout' = Append(real_stdout, w)
                /\ UNCHANGED str_stdout
    /\ UNCHANGED <<graphVars, execVarsNoIO, watcher, ident, storage, name2records,
                   taskName>>

\* Thread c makes a logging call: SeparateByThreadNameHandler.emit files the
\* record under record.threadName.
Emit(c) ==
    /\ Executing(c)
    /\ Cardinality(AllRecords) < MaxRecords
    /\ LET r == [by |-> c, n |-> Cardinality(RecordsOf(c)) + 1, current |-> TRUE]
       IN  name2records' = [name2records EXCEPT ![thread_name(c)] = Append(@, r)]
    /\ UNCHANGED <<graphVars, execVarsNoIO, watcher, ident, storage, str_stdout,
                   real_stdout, taskName>>

\* The body of t's worker is over; run() calls
\* execute_callback_in_new_thread, which starts the watcher.
ExecuteCallbackInNewThread(t) ==
    /\ thread[t] = "running"
    /\ watcher[t] = "new"
    /\ thread' = [thread EXCEPT ![t] = "exiting"]
    /\ watcher' = [watcher EXCEPT ![t] = "alive"]
    /\ \E i \in FreeIdents : ident' = [ident EXCEPT ![Watcher(t)] = i]
    /\ UNCHANGED <<graphVars, callback, error, thread2started, startCalls,
                   thread_start_lock, sched, cbVars, storage, str_stdout,
                   real_stdout, name2records, taskName>>

\* run() of t's worker returns.  Nothing releases the worker's entry of
\* _local.__storage__.
WorkerReturns(t) ==
    /\ thread[t] = "exiting"
    /\ thread' = [thread EXCEPT ![t] = "dead"]
    /\ UNCHANGED <<graphVars, callback, error, thread2started, startCalls,
                   thread_start_lock, sched, cbVars, ioVars>>

\* The watcher of t has run the callback and ends.
WatcherReturns(t) ==
    /\ watcher[t] = "alive"
    /\ thread[t] = "dead"
    /\ watcher' = [watcher EXCEPT ![t] = "dead"]
    /\ UNCHANGED <<graphVars, execVarsNoIO, ident, storage, str_stdout,
                   real_stdout, name2records, taskName>>

\* The names the tasks of the Executor may have: distinct names, one of
\* which may be the name of the main thread.
TaskNamings ==
    {f \in [TaskNames -> {Main} \cup TaskNames] :
        /\ \A t \in TaskNames \ Workers : f[t] = t
        /\ \A t \in Workers : f[t] \in {Main} \cup Workers
        /\ \A t, u \in Workers : t # u => f[t] # f[u]}

\* A record left in name2records by the worker of a task of that name, run
\* by an earlier Executor of this process.
EarlierRecord(t) == [by |-> t, n |-> 1, current |-> FALSE]

\* An Executor on MaxRunTasks independent tasks, in a process in which an
\* earlier Executor may have run a task named like the first one.
OutputInit ==
    /\ tasks = SetToSeq(Workers)
    /\ task2waiting_for = [t \in Workers |-> <<>>]
    /\ cycle = NotCalled
    /\ call = Returned("Executor")
    /\ callback = "returns"
    /\ NoExecutor
    /\ watcher = [t \in TaskNames |-> "new"]
    /\ ident = [c \in Threads |-> IF c = Main THEN 1 ELSE 0]
    /\ storage = [i \in Idents |-> 0]
    /\ str_stdout = [t \in TaskNames |-> <<>>]
    /\ real_stdout = <<>>
    /\ taskName \in TaskNamings
    /\ \E earlier \in BOOLEAN :
          name2records = [nm \in Threads |->
              IF earlier /\ nm = taskName[1] THEN <<EarlierRecord(1)>> ELSE <<>>]

OutputNext ==
    \/ \E t \in Workers : IORedirectedThreadRun(t)
    \/ \E c \in Threads : Write(c)
    \/ \E c \in Threads : Emit(c)
    \/ \E t \in Workers : ExecuteCallbackInNewThread(t)
    \/ \E t \in Workers : WorkerReturns(t)
    \/ \E t \in Workers : WatcherReturns(t)

OutputSpec == OutputInit /\ [][OutputNext]_vars

----------------------------------------------------------------------------
(* The waits-for relation                                                  *)

DirectDeps(t) ==
    IF t \in DOMAIN task2waiting_for THEN Range(task2waiting_for[t]) ELSE {}

\* Every task named in a waits-for list is registered.
AllDepsRegistered ==
    \A t \in DOMAIN task2waiting_for : DirectDeps(t) \subseteq Range(tasks)

RECURSIVE Closure(_)
Closure(S) ==
    LET S2 == S \cup UNION {DirectDeps(t) : t \in S}
    IN  IF S2 = S THEN S ELSE Closure(S2)

\* The tasks t waits for, directly or transitively.
TransDeps(t) == Closure(DirectDeps(t))

Acyclic == \A t \in Range(tasks) : t \notin TransDeps(t)

\* Nothing is left to run: start_execution has returned, every started
\* worker is dead and every watcher has left its pass (or is stuck inside
\* the callback).
Terminated ==
    /\ sched[Main].pc = "done"
    /\ \A t \in TaskNames : thread[t] \in {"new", "dead"}
    /\ \A t \in TaskNames : sched[t].pc \in {"idle", "done", "blocked", "crashed"}

InPass(p) == sched[p].pc \notin {"idle", "done", "blocked", "crashed"}

----------------------------------------------------------------------------
(* Claims                                                                  *)

\* C1: whenever a worker is started (thread.start() in start_execution or in
\* a completion pass), every task of its waits-for list has status Success.
C1_DepsSuccessAtStart ==
    [][\A t \in TaskNames :
          (startCalls'[t] > startCalls[t]) => if_all_tasks_success(task2waiting_for[t])]_vars

\* C1 witness: a task with a dependency has been started.
C1_Witness ==
    \E t \in TaskNames : task2waiting_for[t] # <<>> /\ thread[t] = "running"

\* C2: no worker has start() called on it more than once.
C2_StartedAtMostOnce == \A t \in TaskNames : startCalls[t] <= 1

\* C2 witness: a task with two dependencies was started while the watchers of
\* both dependencies are inside their completion passes.
C2_Witness ==
    \E t, a, b \in TaskNames :
        /\ a # b /\ t \notin {a, b}
        /\ {a, b} \subseteq DirectDeps(t)
        /\ InPass(a) /\ InPass(b)
        /\ startCalls[t] = 1

\* C3: the registered callback is invoked at most once in an execution.
C3_CallbackAtMostOnce == cbTrue + cbFalse <= 1

\* C4: with a callback registered, once everything has run the callback has
\* been invoked: with False if some task failed, with True if all succeeded.
C4_CallbackInvoked ==
    (Acyclic /\ callback # "none" /\ Terminated) =>
        /\ if_any_failed_task => cbFalse >= 1
        /\ if_all_tasks_success(tasks) => cbTrue >= 1

\* C5: callback(True) is invoked only in a state where every task is Success
\* (the claim's first half; its second half is C5_CallbackFalseHasFailure).
C5_CallbackTrueAllSuccess ==
    [][(cbTrue' > cbTrue) => if_all_tasks_success(tasks)]_vars

\* C5, second half: callback(False) is invoked only in a state where some
\* task is Failure.
C5_CallbackFalseHasFailure ==
    [][(cbFalse' > cbFalse) => if_any_failed_task]_vars

C7_DependentsOfFailureStayWaiting ==
    \A a, b \in TaskNames :
        (error[a] /\ a \in TransDeps(b)) =>
            (startCalls[b] = 0 /\ get_task_status(b) = Waiting)

\* C7 witness: execution is over, a task failed and another task depends on
\* it through an intermediate task.
C7_Witness ==
    /\ Terminated
    /\ \E a, b \in TaskNames :
          /\ a \in TransDeps(b) /\ a \notin DirectDeps(b)
          /\ get_task_status(a) = Failure

\* C8: once execution quiesces, every task still Waiting has a failed task
\* among its transitive dependencies.
C8_WaitingOnlyBehindFailure ==
    (Acyclic /\ Terminated) =>
        \A t \in TaskNames :
            get_task_status(t) = Waiting =>
                \E a \in TransDeps(t) : get_task_status(a) = Failure

\* C9: on a graph whose dependencies are all registered, has_cycle returns
\* None exactly when the waits-for relation is acyclic.
C9_NoneIffAcyclic ==
    (cycle.called /\ AllDepsRegistered) =>
        /\ ~cycle.raised
        /\ (cycle.path = <<>>) <=> Acyclic

\* C9 witness: has_cycle found a cycle that does not pass through the first
\* registered task, in a graph with a duplicate edge.
C9_Witness ==
    /\ cycle.called /\ AllDepsRegistered
    /\ cycle.path # <<>>
    /\ tasks[1] \notin Range(cycle.path)
    /\ \E t \in DOMAIN task2waiting_for :
          Cardinality(DirectDeps(t)) < Len(task2waiting_for[t])

\* C10: a sequence returned by has_cycle is a closed cycle of the graph: it
\* ends where it begins, each element waits for the next one, and no task
\* but the closing one occurs twice.
C10_PathIsCycle ==
    (cycle.called /\ AllDepsRegistered /\ cycle.path # <<>>) =>
        LET path == cycle.path
            n == Len(path)
        IN  /\ n >= 2
            /\ path[1] = path[n]
            /\ \A k \in 1..(n - 1) : path[k + 1] \in DirectDeps(path[k])
            /\ \A j, k \in 1..(n - 1) : j # k => path[j] # path[k]

\* C10 witness: the cycle returned goes through three tasks.
C10_Witness ==
    /\ cycle.called /\ AllDepsRegistered
    /\ Len(cycle.path) = 4
    /\ Range(cycle.path) = Range(tasks)

\* C11: start_execution on a graph whose waits-for relation has a cycle
\* starts no worker (it fails with a cycle error first).
C11_CyclicGraphNotStarted ==
    ~Acyclic => \A t \in TaskNames : startCalls[t] = 0

\* No Executor was constructed and no worker was started.
NothingStarted ==
    /\ sched[Main].pc = "idle"
    /\ \A t \in TaskNames : startCalls[t] = 0 /\ thread[t] = "new"

\* The sequence path names a cycle of the waits-for relation: it ends where
\* it begins and each task waits for the next one.
NamesCycle(path) ==
    /\ Len(path) >= 2
    /\ path[1] = path[Len(path)]
    /\ \A k \in 1..(Len(path) - 1) : path[k + 1] \in DirectDeps(path[k])

C13_UnknownDependencyNeverRun ==
    (call.op \in {"run", "Executor"} /\ ~AllDepsRegistered) =>
        /\ \A t \in TaskNames : startCalls[t] = 0 /\ thread[t] = "new"
        /\ call.op = "run" => call.error \in {"KeyError", "ValueError"}
        /\ call.op = "Executor" => sched[Main].pc \in {"init", "ready", "crashed"}

\* C13 witness: start_execution raised KeyError on a graph that has a task
\* without dependencies and a task waiting for an unregistered one.
C13_Witness ==
    /\ call.op = "Executor" /\ ~AllDepsRegistered
    /\ sched[Main].pc = "crashed"
    /\ \E t \in Range(tasks) : task2waiting_for[t] = <<>>

\* C14: the status of a task only progresses: once it is not Waiting it is
\* never Waiting again, and Success and Failure are never left.
C14_StatusOnlyProgresses ==
    [][\A t \in TaskNames :
          /\ get_task_status(t) # Waiting => get_task_status(t)' # Waiting
          /\ get_task_status(t) \in {Success, Failure} =>
                get_task_status(t)' = get_task_status(t)]_vars

\* The writes of thread c, in the order c made them.
OwnWrites(c) == [k \in 1..Cardinality(WritesOf(c)) |-> <<c, k>>]

\* C15: get_task_output(T) is exactly what T's body wrote, in order: every
\* write of a worker is in its own buffer, and nothing else is.
C15_OutputIsExactlyOwnWrites ==
    \A t \in Workers : str_stdout[t] = OwnWrites(t)

\* C15, restricted to what the workers write: each worker's writes are in
\* its own buffer in order, in no other buffer and not on the real stdout,
\* and a step that binds a worker's buffer leaves what sys.stdout resolves to
\* in every other living thread unchanged.
C15_WorkersIsolated ==
    /\ [](\A t \in Workers :
            /\ SelectSeq(str_stdout[t], LAMBDA w : w[1] \in Workers) = OwnWrites(t)
            /\ \A w \in Range(real_stdout) : w[1] # t)
    /\ [][\A t \in Workers, c \in Threads :
            (thread[t] = "new" /\ thread'[t] = "running" /\ Alive(c)) =>
                bound_stdout(c)' = bound_stdout(c)]_vars

\* C16: a write made by a thread that never bound a buffer (the main thread,
\* a watcher running the callback) is on the real stdout and in no task's
\* buffer.
C16_UnboundWritesToRealStdout ==
    \A c \in Threads \ Workers :
        \A w \in WritesOf(c) : w \in Range(real_stdout)

\* C17: with a callback that never returns, once nothing is left to run
\* every task whose direct dependencies are all Success has been started.
C17_ReadyTasksStartedDespiteCallback ==
    (callback = "blocks" /\ Terminated) =>
        \A t \in TaskNames :
            if_all_tasks_success(task2waiting_for[t]) => startCalls[t] >= 1

\* The records of thread c, in the order c emitted them.
OwnRecords(c) ==
    [k \in 1..Cardinality(RecordsOf(c)) |-> [by |-> c, n |-> k, current |-> TRUE]]

\* C18: the records filed under a task's name are exactly those its worker
\* emitted in this execution, in order, and no record of the main thread is
\* among them.
C18_TaskRecordsAreOwnRecords ==
    \A t \in Workers :
        get_thread_log_records(taskName[t]) = OwnRecords(t)

\* No element occurs twice in the sequence.
Distinct(seq) == \A j, k \in 1..Len(seq) : j # k => seq[j] # seq[k]

\* C19: linear_graph_from_list on distinct tasks t1..tn registers them in
\* that order with exactly the edges "t(i+1) waits for t(i)"; the graph is
\* acyclic and t1 is the only task ready to run.
C19_LinearGraph ==
    (call.op = "linear_graph_from_list" /\ Distinct(call.arg)) =>
        LET list == call.arg
        IN  /\ tasks = list
            /\ DOMAIN task2waiting_for = Range(list)
            /\ \A i \in 1..Len(list) :
                  task2waiting_for[list[i]] =
                      IF i = 1 THEN <<>> ELSE <<list[i - 1]>>
            /\ Acyclic
            /\ \A i \in 1..Len(list) : ReadyToRun(list[i]) <=> i = 1

\* C19 witness: the graph made from a list of three tasks that is not in
\* name order.
C19_Witness ==
    /\ call.op = "linear_graph_from_list"
    /\ call.arg = <<2, 3, 1>>

\* C20: the task sequence never holds a name twice and task2waiting_for has
\* exactly the registered tasks as keys; on every graph reached, add_task of
\* a registered name leaves the task sequence unchanged and only appends the
\* given edges to that task's list; a step that is add_dependency on an
\* unregistered task raises and leaves the graph unchanged.
C20_GraphWellFormed ==
    /\ [](/\ Distinct(tasks)
          /\ DOMAIN task2waiting_for = Range(tasks)
          /\ \A task \in Range(tasks), waiting_for \in WaitingForArgs(TaskNames) :
                LET r == add_task(tasks, task2waiting_for, task, waiting_for)
                IN  /\ r.tasks = tasks
                    /\ DOMAIN r.task2waiting_for = Range(tasks)
                    /\ \A t \in Range(tasks) :
                          r.task2waiting_for[t] =
                              IF t = task THEN task2waiting_for[t] \o waiting_for
                              ELSE task2waiting_for[t])
    /\ [][\A task \in TaskNames \ Range(tasks), waiting_for \in WaitingForArgs(TaskNames) :
            AddDependency(task, waiting_for) =>
                /\ call'.error = "KeyError"
                /\ UNCHANGED <<tasks, task2waiting_for>>]_vars

\* C20 witness: add_dependency raised on a graph in which a registered task
\* was given edges by two calls.
C20_Witness ==
    /\ call.op = "add_dependency" /\ call.error = "KeyError"
    /\ \E t \in Range(tasks) : Len(task2waiting_for[t]) >= 2

C21_ErrorCaptured ==
    \A t \in Range(tasks) :
        /\ error[t] => get_task_status(t) # Success
        /\ error[t] => thread[t] \in {"exiting", "dead"}
        /\ thread[t] = "dead" => sched[t].pc # "idle"
        /\ error[t] /\ thread[t] = "dead" /\ thread2started[t] =>
               get_task_status(t) = Failure

\* The steps start_execution takes after it has entered the with block.
StartExecutionStep ==
    ComputeReady(Main) \/ ThreadStart(Main) \/ MarkStarted(Main)

\* C22: every worker start_execution starts belongs to a task with an empty
\* waits-for list; in the state in which start_execution returns a task has
\* been started (thread.start() called once, thread2started set) if and only
\* if its waits-for list is empty; and between entering the with block and
\* returning start_execution is never held up, whatever the workers do.
C22_StartExecutionStartsRoots ==
    /\ [](sched[Main].pc \in {"ready", "start", "mark"} => ENABLED StartExecutionStep)
    /\ [][/\ ThreadStart(Main) =>
                task2waiting_for[Head(sched[Main].ready)] = <<>>
          /\ sched[Main].pc # "done" /\ sched'[Main].pc = "done" =>
                \A t \in Range(tasks) :
                    /\ startCalls'[t] = (IF task2waiting_for[t] = <<>> THEN 1 ELSE 0)
                    /\ thread2started'[t] <=> task2waiting_for[t] = <<>>]_vars

\* C22 witness: start_execution has returned, no task body has ended yet,
\* the workers of the two dependency-free tasks are running and the task
\* that waits for one of them is not started.
C22_Witness ==
    /\ sched[Main].pc = "done"
    /\ \A t \in Range(tasks) :
          thread[t] = (IF task2waiting_for[t] = <<>> THEN "running" ELSE "new")
    /\ Cardinality({t \in Range(tasks) : task2waiting_for[t] = <<>>}) = 2

\* The completion pass of worker t is at its first step.
PassBegins(t) == sched[t] = Scan("anyfailed", FALSE)

\* C23: the completion pass of a worker has begun if and only if the worker
\* has finished; a worker whose pass has begun was started and is no longer
\* alive; a pass begins only in the step in which its worker stops being
\* alive, and never a second time; so the passes are as many as the
\* finished workers.
C23_OnePassPerFinishedWorker ==
    /\ [](/\ \A t \in Range(tasks) :
                /\ sched[t].pc # "idle" <=> thread[t] = "dead"
                /\ sched[t].pc # "idle" => startCalls[t] >= 1 /\ ~is_alive(t)
          /\ Cardinality({t \in Range(tasks) : sched[t].pc # "idle"}) =
                Cardinality({t \in Range(tasks) : thread[t] = "dead"}))
    /\ [][\A t \in Range(tasks) :
            /\ PassBegins(t)' /\ sched'[t] # sched[t] =>
                  /\ sched[t] = Idle
                  /\ is_alive(t) /\ ~is_alive(t)'
            /\ sched[t].pc # "idle" => sched'[t].pc # "idle"]_vars

\* C23 witness: the pass of one finished worker has run to its end, the pass
\* of a second finished worker is under way, and a third worker that was
\* never started has no pass.
C23_Witness ==
    \E t, u, w \in Range(tasks) :
        /\ thread[t] = "dead" /\ sched[t].pc = "done"
        /\ thread[u] = "dead" /\ sched[u].pc = "allsuccess"
        /\ thread[w] = "new" /\ startCalls[w] = 0 /\ sched[w].pc = "idle"

\* The tasks whose status is Running.
RunningTasks == {t \in Range(tasks) : get_task_status(t) = Running}

\* S holds no task that depends, directly or transitively, on a task of S.
Antichain(S) == \A t \in S, u \in S : u \notin TransDeps(t)

\* The largest number of tasks none of which depends on another.
MaxAntichainWidth ==
    LET sizes == {Cardinality(S) : S \in {A \in SUBSET Range(tasks) : Antichain(A)}}
    IN  CHOOSE n \in sizes : \A m \in sizes : m <= n

\* C24: in every state no Running task depends, directly or transitively, on
\* a Running task, and the Running tasks are at most as many as the largest
\* set of pairwise independent tasks of the graph.
C24_RunningIsAntichain ==
    /\ Antichain(RunningTasks)
    /\ Cardinality(RunningTasks) <= MaxAntichainWidth

\* C24 witness: two tasks are Running at once in a graph whose third task
\* depends on one of them, so the graph's width is two, not three.
C24_Witness ==
    /\ Cardinality(RunningTasks) = 2
    /\ MaxAntichainWidth = 2
    /\ \E t \in Range(tasks) \ RunningTasks : TransDeps(t) \cap RunningTasks # {}

\* C25: within one execution the callback is not invoked with both
\* outcomes: callback(True) and callback(False) are never both on record, in
\* either order.
C25_NeverBothOutcomes == cbTrue = 0 \/ cbFalse = 0

\* The tasks an execution starts, as a function of the graph and of the
\* outcomes of the task bodies alone: the least set that holds every task
\* all of whose dependencies are in the set and did not raise.
RECURSIVE StartedBy(_)
StartedBy(S) ==
    LET S2 == S \cup {t \in Range(tasks) :
                         \A d \in DirectDeps(t) : d \in S /\ ~error[d]}
    IN  IF S2 = S THEN S ELSE StartedBy(S2)

ExpectedStarted == StartedBy({})

\* The final status of a task, as a function of the graph and the outcomes.
ExpectedStatus(t) ==
    IF t \notin ExpectedStarted THEN Waiting
    ELSE IF error[t] THEN Failure
    ELSE Success

\* The Executor has no callback, or one that returns.
CallbackReturns == callback \in {"none", "returns"}

\* How far a proc has come in start_execution or in its completion pass: the
\* statements in program order, and within a statement the loop iterations.
PcRank(pcv) ==
    CASE pcv \in {"idle", "init"} -> 0
      [] pcv = "anyfailed" -> 1
      [] pcv = "cbFalse" -> 2
      [] pcv = "allsuccess" -> 3
      [] pcv = "cbTrue" -> 4
      [] pcv = "lock" -> 5
      [] pcv = "ready" -> 6
      [] pcv \in {"start", "mark"} -> 7
      [] pcv \in {"done", "blocked", "crashed"} -> 8

InnerRank(pos) ==
    CASE pos.pc \in {"anyfailed", "allsuccess"} ->
             3 * pos.i + (CASE pos.sub = "alive" -> 0
                            [] pos.sub = "flag" -> 1
                            [] pos.sub = "error" -> 2)
      [] pos.pc = "ready" -> pos.i
      [] pos.pc = "start" -> 2 * (NumTasks - Len(pos.ready))
      [] pos.pc = "mark" -> 2 * (NumTasks - Len(pos.ready)) + 1
      [] OTHER -> 0

Position(p) == PcRank(sched[p].pc) * (3 * NumTasks + 3) + InnerRank(sched[p])

\* How far a worker thread has come in its life.
ThreadRank(t) ==
    CASE thread[t] = "new" -> 0
      [] thread[t] = "running" -> 1
      [] thread[t] = "exiting" -> 2
      [] thread[t] = "dead" -> 3

\* A step advances the execution: it moves a proc or a worker thread, and
\* whatever it moves it moves forward.
Advances ==
    /\ sched' # sched \/ thread' # thread
    /\ \A p \in Procs : sched'[p] = sched[p] \/ Position(p)' > Position(p)
    /\ \A t \in TaskNames : thread'[t] = thread[t] \/ ThreadRank(t)' > ThreadRank(t)

\* C26: an Executor without a callback and one with a callback that returns
\* schedule alike.  Either one starts a task only when every task of its
\* waits-for list is Success and starts no task outside the set the graph
\* and the outcomes determine; it comes to an end, because every step
\* advances the execution and some step is possible until nothing is left
\* to run; and it ends with exactly that set started once and with the
\* status of every task the one the graph and the outcomes determine.
C26_CallbackDoesNotAffectScheduling ==
    /\ [](CallbackReturns =>
            /\ {t \in Range(tasks) : startCalls[t] >= 1} \subseteq ExpectedStarted
            /\ Terminated =>
                  \A t \in Range(tasks) :
                      /\ startCalls[t] = (IF t \in ExpectedStarted THEN 1 ELSE 0)
                      /\ get_task_status(t) = ExpectedStatus(t))
    /\ [][CallbackReturns =>
            \A t \in Range(tasks) :
                startCalls'[t] > startCalls[t] =>
                    \A d \in DirectDeps(t) : get_task_status(d) = Success]_vars
    /\ [][Advances]_vars
    /\ [](CallbackReturns /\ ~Terminated => ENABLED Next)

\* C26 witness: an execution with a callback that returns is over; the
\* callback was invoked; one task failed, a task that depends on it was not
\* started, and a third task is Success.
C26_Witness ==
    /\ callback = "returns" /\ Terminated /\ cbFalse >= 1
    /\ \E a, b \in Range(tasks) :
          /\ error[a] /\ a \in DirectDeps(b) /\ startCalls[b] = 0
    /\ \E c \in Range(tasks) : get_task_status(c) = Success

====
